---- MODULE Spec2Model ----
(***************************************************************************)
(* instarec: the streaming engine of the live-DASH recorder.               *)
(*                                                                         *)
(* Three state machines share this module.                                 *)
(*   Spec        the run: the supervisor StreamDownloader.run with the     *)
(*               past worker, the live poller and the live downloader      *)
(*               (instarec/past.py, live.py, io.py), the staging files     *)
(*               and the loss counters.                                    *)
(*   SearchSpec  the backlog discoverer of instarec/past.py at the level   *)
(*               of its probe tasks (semaphore, HEAD retries, completion   *)
(*               order, cancellation), driven by a caller that issues      *)
(*               consecutive searches as the past worker does.             *)
(*   LegacySearchSpec  the same for the method of the same name kept in    *)
(*               instarec/downloader.py.                                   *)
(* An asyncio task runs without interruption between two awaits, so every  *)
(* action below is one such stretch of one task.                           *)
(***************************************************************************)
EXTENDS Integers, Sequences, FiniteSets, TLC

\* ------------------------------------------------------------------ bounds
\* Largest timestamp of the run's manifests, probe answers and search results.
MaxT == 2
\* Largest timestamp the HEAD mock answers for; every other one is 404.
MaxHead == 3
\* Number of consecutive searches the caller issues.
MaxSearches == 2
\* Number of times the calling task is cancelled (supervisor, then teardown).
MaxCancels == 2
\* Pair downloads the past worker may start.
MaxAttempts == 2
\* S entries in one polled manifest.
MaxS == 1
\* Polls of the live manifest (one poll_interval each).
MaxTime == 3
\* Calls of the finaliser on one staging directory.
MaxFinalize == 2
\* Distinct segment bodies, and segments per staging file, the finaliser meets.
NumBodies == 1
MaxFileLen == 1
\* Lines of output of the duration probe.
MaxLines == 2
\* Representations of a manifest, preferred ids of a call, and bandwidths.
MaxReps == 2
MaxPreferred == 2
MaxBandwidth == 2
\* Configuration of the run (cli.py gives the defaults of a real run).
download_retries == 3
download_retry_delay == 1
poll_interval == 1
live_end_timeout == 1
max_search_requests == 2
search_chunk_size == 3
end_stream_miss_threshold == 4
check_url_retries == 2

\* --------------------------------------------------------------- constants
\* Python's None, for "no timestamp".
None == -1
\* A transport error or timeout: the request got no response.
NoResponse == 0

HeadStatuses == {200, 404, 500, NoResponse}

VARIABLES
    head,         \* the HEAD mock: timestamp -> status of its video URL
    probes,       \* the probe tasks: <<search, t>> -> task state
    completed,    \* as_completed's queue: finished probes not yet consumed
    s_pc,         \* where the search is: idle, running, cleanup, returned, raised
    s_id,         \* number of the current search
    s_start,      \* start_t of the current search
    s_chunk,      \* i of the chunk loop
    s_result,     \* what the search returns
    s_cancelled,  \* a CancelledError is propagating through the search
    n_cancels     \* cancellations delivered to the calling task

VARIABLES
    main_pc,      \* where run() is
    run_outcome,  \* how run() ended: none, returned, raised
    segments_dir, \* the staging directory exists
    finalize_calls,             \* calls of the finaliser
    n_sigint,                   \* cancellations of the main task
    no_past,                    \* --no-past
    initial_t,                  \* stream_info["initial_t"]
    publish_frame_time,         \* stream_info["publish_frame_time"]
    w_pc,                       \* worker -> the await it is suspended at
    w_t,                        \* worker -> current_t / timestamp
    files,                      \* staging file -> timestamps appended, in order
    live_download_queue,
    queued_live_timestamps,
    last_new_segment_time,
    now,                        \* loop.time(), in poll intervals
    total_expected_segments,
    missing_segment_timestamps,
    first_segment_t

pvars == <<main_pc, run_outcome, segments_dir, finalize_calls, n_sigint, no_past,
           initial_t, publish_frame_time, w_pc, w_t, files, live_download_queue,
           queued_live_timestamps, last_new_segment_time, now,
           total_expected_segments, missing_segment_timestamps, first_segment_t>>

svars == <<head, probes, completed, s_pc, s_id, s_start, s_chunk, s_result,
           s_cancelled, n_cancels>>

VARIABLES
    f_pc,               \* how the last call of the finaliser ended
    f_calls,            \* calls of finalize_video so far
    staging_dir_exists, \* segments_dir is on disk
    staged,             \* staging file -> <<>> (absent) or <<its content>>
    video_full,         \* video_full.mp4: <<>> (absent) or <<its content>>
    audio_full,         \* audio_full.mp4, likewise
    output_file,        \* the output file, likewise
    outputs,            \* the output file as each call left it
    keep_segments,      \* --keep-segments
    ffmpeg,             \* what the muxer does: ok, nonzero, cannot_start
    open_fails,         \* the staging volume refuses to open a file for writing
    muxed               \* the muxer has succeeded

fvars == <<f_pc, f_calls, staging_dir_exists, staged, video_full, audio_full,
           output_file, outputs, keep_segments, ffmpeg, open_fails, muxed>>

VARIABLES
    g_pc,        \* where the GET is: idle, get, sleep, done, parsed
    g_attempt,   \* attempt of fetch_url_content's for loop
    g_delay,     \* delay
    g_sleeps,    \* the backoff sleeps of this call, in order
    g_log,       \* the responses this call received, in order
    g_content,   \* the body fetch_url_content returned: none, empty, xml, garbage
    g_headers,   \* the headers it returned: none, plain, ended
    m_root,      \* what fetch_and_parse_mpd returned as root: none, root
    m_is_ended   \* what it returned as is_ended

gvars == <<g_pc, g_attempt, g_delay, g_sleeps, g_log, g_content, g_headers,
           m_root, m_is_ended>>

VARIABLES
    init_files,         \* what video_init and audio_init hold; "absent": no file
    past_seed,          \* the bytes each past file was created with
    probe_in            \* what the duration probe meets, when it is given

ivars == <<init_files, past_seed, probe_in>>

VARIABLES
    sel_root,           \* the Representation elements of a manifest, in document order
    sel_media_type,     \* the mimeType asked for
    sel_preferred_ids,  \* the preferred ids, in the user's order
    sel_result          \* what select_representation gave

\* The variables of the functions that are called on their own.
ovars == <<sel_root, sel_media_type, sel_preferred_ids, sel_result>>

\* The variables of the components other than the run and the search.
xvars == <<fvars, gvars, ivars, ovars>>

vars == <<pvars, svars, xvars>>

\* ------------------------------------------------------------- probe tasks
HeadStatus(t) == IF t \in DOMAIN head THEN head[t] ELSE 404

ProbeIds == DOMAIN probes
ProbesOf(sid) == {k \in ProbeIds : k[1] = sid}
Unfinished(sid) == {k \in ProbesOf(sid) : probes[k].pc # "done"}

\* A semaphore that never counts a permit as taken (a variant that
\* breaks C8).
Permits_uncounted(sid) == 0

\* Permits of a search's semaphore that are taken.
Permits(sid) ==
    Cardinality({k \in ProbesOf(sid) : probes[k].pc \in {"head", "sleep"}})

\* HEAD requests that are on the wire.
InFlight == Cardinality({k \in ProbeIds : probes[k].pc = "head"})

FreshProbe == [pc |-> "queued", attempt |-> 0, result |-> None, cancel |-> FALSE]

\* The chunk_tasks list of one chunk.
ChunkTasks(sid, chunk_start) ==
    [k \in {<<sid, t>> : t \in chunk_start .. (chunk_start + search_chunk_size - 1)}
        |-> FreshProbe]

\* task.cancel() on every task of a list; a finished task ignores it.
CancelAll(ps, ids) ==
    [k \in DOMAIN ps |->
        IF k \in ids /\ ps[k].pc # "done" THEN [ps[k] EXCEPT !.cancel = TRUE]
        ELSE ps[k]]

\* The tasks asyncio.as_completed is iterating over: the current chunk's.
InChunk(k) == k[1] = s_id /\ k[2] >= s_start + s_chunk

\* A chunk taken to be over as soon as the results at hand are used up (a
\* variant that breaks C33).
UnfinishedInChunk_ignored == {}

\* The tasks of the current chunk that have not finished.
UnfinishedInChunk == {k \in Unfinished(s_id) : InChunk(k)}

Finish(k, r) ==
    /\ probes' = [probes EXCEPT ![k] =
                    [pc |-> "done", attempt |-> @.attempt, result |-> r,
                     cancel |-> FALSE]]
    /\ completed' = IF InChunk(k) /\ s_pc = "running"
                    THEN Append(completed, k[2]) ELSE completed

\* async with semaphore: the waiters are served first come, first served.
check_url_exists_acquire(k) ==
    /\ probes[k].pc = "queued"
    /\ ~probes[k].cancel
    /\ Permits(k[1]) < max_search_requests
    /\ \A j \in ProbesOf(k[1]) : probes[j].pc = "queued" => k[2] <= j[2]
    /\ probes' = [probes EXCEPT ![k].pc = "head"]
    /\ UNCHANGED <<pvars, xvars, head, completed, s_pc, s_id, s_start, s_chunk, s_result,
                   s_cancelled, n_cancels>>

\* What one answered (or failed) HEAD does to the retry loop.
HeadOutcome(k, status) ==
    IF status = 200 THEN Finish(k, k[2])
    ELSE IF status # NoResponse /\ 400 <= status /\ status < 500 /\ status # 429
    THEN Finish(k, None)
    ELSE IF status # NoResponse
    THEN \* 5xx or 429: the for loop goes straight to its next attempt
         IF probes[k].attempt + 1 < check_url_retries
         THEN /\ probes' = [probes EXCEPT ![k].attempt = @ + 1]
              /\ UNCHANGED completed
         ELSE Finish(k, None)
    ELSE \* TimeoutError / ClientError
         IF probes[k].attempt = check_url_retries - 1
         THEN Finish(k, None)
         ELSE /\ probes' = [probes EXCEPT ![k].pc = "sleep"]
              /\ UNCHANGED completed

check_url_exists_response(k) ==
    /\ probes[k].pc = "head"
    /\ ~probes[k].cancel
    /\ HeadOutcome(k, HeadStatus(k[2]))
    /\ UNCHANGED <<pvars, xvars, head, s_pc, s_id, s_start, s_chunk, s_result, s_cancelled,
                   n_cancels>>

\* asyncio.sleep(0.5) is over: the next attempt of the loop.
check_url_exists_wake(k) ==
    /\ probes[k].pc = "sleep"
    /\ ~probes[k].cancel
    /\ probes' = [probes EXCEPT ![k].pc = "head", ![k].attempt = @ + 1]
    /\ UNCHANGED <<pvars, xvars, head, completed, s_pc, s_id, s_start, s_chunk, s_result,
                   s_cancelled, n_cancels>>

\* The CancelledError of task.cancel() arrives in the probe.  Inside the
\* HEAD request it is caught by the except clause, which lists
\* asyncio.CancelledError; waiting for the semaphore or sleeping it ends
\* the task.
check_url_exists_cancelled(k) ==
    /\ probes[k].pc # "done"
    /\ probes[k].cancel
    /\ IF probes[k].pc = "head"
       THEN IF probes[k].attempt = check_url_retries - 1
            THEN Finish(k, None)
            ELSE /\ probes' = [probes EXCEPT ![k].pc = "sleep", ![k].cancel = FALSE]
                 /\ UNCHANGED completed
       ELSE Finish(k, None)
    /\ UNCHANGED <<pvars, xvars, head, s_pc, s_id, s_start, s_chunk, s_result, s_cancelled,
                   n_cancels>>

\* ------------------------------------------------------------- the search
\* The caller: the past worker searches from 0, then from current_t + 1.
search_call ==
    /\ \/ s_pc = "idle" /\ s_start' = 0
       \/ /\ s_pc = "returned"
          /\ s_result # None
          /\ s_id < MaxSearches
          /\ s_start' = s_result + 1
    /\ s_id' = s_id + 1
    /\ s_chunk' = 0
    /\ s_result' = None
    /\ s_pc' = "running"
    /\ completed' = <<>>
    /\ probes' = [k \in {j \in ProbeIds : probes[j].pc # "done"} |-> probes[k]]
                    @@ ChunkTasks(s_id + 1, s_start')
    /\ UNCHANGED <<pvars, xvars, head, s_cancelled, n_cancels>>

\* The finally clause: cancel every task of all_tasks, then gather them.
EnterCleanup(result, cancelled) ==
    /\ probes' = CancelAll(probes, ProbesOf(s_id))
    /\ completed' = <<>>
    /\ s_result' = result
    /\ s_cancelled' = cancelled
    /\ s_pc' = "cleanup"

\* for future in asyncio.as_completed(chunk_tasks): result = await future
search_forwards_next_result ==
    /\ s_pc = "running"
    /\ completed # <<>>
    /\ LET r == probes[<<s_id, Head(completed)>>].result IN
       IF r # None
       THEN /\ EnterCleanup(r, FALSE)
            /\ UNCHANGED s_chunk
       ELSE IF Len(completed) > 1 \/ UnfinishedInChunk # {}
       THEN /\ completed' = Tail(completed)
            /\ UNCHANGED <<probes, s_pc, s_chunk, s_result, s_cancelled>>
       ELSE IF s_chunk + search_chunk_size < end_stream_miss_threshold
       THEN /\ s_chunk' = s_chunk + search_chunk_size
            /\ probes' = probes @@
                  ChunkTasks(s_id, s_start + s_chunk + search_chunk_size)
            /\ completed' = <<>>
            /\ UNCHANGED <<s_pc, s_result, s_cancelled>>
       ELSE /\ EnterCleanup(None, FALSE)
            /\ UNCHANGED s_chunk
    /\ UNCHANGED <<pvars, xvars, head, s_id, s_start, n_cancels>>

\* await asyncio.gather(*all_tasks, return_exceptions=True) is over: every
\* task has finished.  The search returns, or the CancelledError goes on.
search_forwards_return ==
    /\ s_pc = "cleanup"
    /\ Unfinished(s_id) = {}
    /\ s_pc' = IF s_cancelled THEN "raised" ELSE "returned"
    /\ UNCHANGED <<pvars, xvars, head, probes, completed, s_id, s_start, s_chunk, s_result,
                   s_cancelled, n_cancels>>

\* The calling task is cancelled while the search awaits: a probe's result
\* (the finally clause then runs) or the gather of the finally clause (which
\* passes the cancellation to its children and goes on waiting for them).
search_forwards_cancelled ==
    /\ n_cancels < MaxCancels
    /\ n_cancels' = n_cancels + 1
    /\ \/ /\ s_pc = "running"
          /\ EnterCleanup(None, TRUE)
       \/ /\ s_pc = "cleanup"
          /\ probes' = CancelAll(probes, ProbesOf(s_id))
          /\ s_cancelled' = TRUE
          /\ UNCHANGED <<completed, s_pc, s_result>>
    /\ UNCHANGED <<pvars, xvars, head, s_id, s_start, s_chunk>>


\* ------------------------------------------- the search of downloader.py
\* StreamDownloader._check_url_exists catches ClientError and TimeoutError
\* only: a CancelledError ends the task wherever it arrives.
legacy_check_url_exists_cancelled(k) ==
    /\ probes[k].pc # "done"
    /\ probes[k].cancel
    /\ Finish(k, None)
    /\ UNCHANGED <<pvars, xvars, head, s_pc, s_id, s_start, s_chunk, s_result, s_cancelled,
                   n_cancels>>

\* The chunk loop moves on: the next chunk's tasks, or "return None".
LegacyNextChunk(ps) ==
    IF s_chunk + search_chunk_size < end_stream_miss_threshold
    THEN /\ s_chunk' = s_chunk + search_chunk_size
         /\ probes' = ps @@ ChunkTasks(s_id, s_start + s_chunk + search_chunk_size)
         /\ UNCHANGED <<s_pc, s_result>>
    ELSE /\ probes' = ps
         /\ s_pc' = "returned"
         /\ s_result' = None
         /\ UNCHANGED s_chunk

\* StreamDownloader._search_forwards_for_next_segment: on a hit it cancels
\* the chunk's tasks and returns at once, without awaiting them.
legacy_search_forwards_next_result ==
    /\ s_pc = "running"
    /\ completed # <<>>
    /\ LET r == probes[<<s_id, Head(completed)>>].result IN
       IF r # None
       THEN /\ probes' = CancelAll(probes, ProbesOf(s_id))
            /\ completed' = <<>>
            /\ s_result' = r
            /\ s_pc' = "returned"
            /\ UNCHANGED s_chunk
       ELSE IF Len(completed) > 1 \/ UnfinishedInChunk # {}
       THEN /\ completed' = Tail(completed)
            /\ UNCHANGED <<probes, s_pc, s_chunk, s_result>>
       ELSE /\ completed' = <<>>
            /\ LegacyNextChunk(probes)
    /\ UNCHANGED <<pvars, xvars, head, s_id, s_start, s_cancelled, n_cancels>>

\* The calling task is cancelled while the legacy search awaits a probe:
\* "except asyncio.CancelledError: pass" drops the cancellation, the finally
\* clause cancels the chunk's unfinished tasks, and the chunk loop goes on.
legacy_search_forwards_cancelled ==
    /\ n_cancels < MaxCancels
    /\ n_cancels' = n_cancels + 1
    /\ s_pc = "running"
    /\ completed' = <<>>
    /\ LegacyNextChunk(CancelAll(probes, ProbesOf(s_id)))
    /\ UNCHANGED <<pvars, xvars, head, s_id, s_start, s_cancelled>>

\* The legacy past worker: search from 0, then from current_t + 1.  Between
\* two searches it awaits the download of the segment found, and the tasks
\* the first search cancelled get their CancelledError during that await.
legacy_search_call ==
    /\ \A k \in ProbeIds : probes[k].pc = "done"
    /\ search_call


\* ================================================================ the run
TS == 0 .. MaxT
Workers == {"poll", "live", "past"}
Downloaders == {"live", "past"}
Terminal == {"returned", "raised", "cancelled"}
FileNames == {"video_past", "audio_past", "video_live", "audio_live"}

VideoPath(w) == IF w = "past" THEN "video_past" ELSE "video_live"
AudioPath(w) == IF w = "past" THEN "audio_past" ELSE "audio_live"

\* The workers run() hands to asyncio.gather.
Started == IF no_past THEN {"poll", "live"} ELSE Workers
Running(w) == w_pc[w] \notin (Terminal \cup {"unstarted"})

SetPc(w, pc) == w_pc' = [w_pc EXCEPT ![w] = pc]

\* ------------------------------------------------------ cancelling workers
\* Where task.cancel() leaves a worker: none of them catches the
\* CancelledError, but the search first drains its probes in its finally.
CancelledPc(w) ==
    IF ~Running(w) THEN w_pc[w]
    ELSE IF w = "past" /\ w_pc[w] \in {"search0", "search", "search_cleanup"}
    THEN "search_cleanup"
    ELSE "cancelled"

\* The file a worker is writing to when it is cancelled: the write runs in
\* aiofiles' executor thread, which a cancelled await does not stop.
PendingWrite(w, f) ==
    \/ w_pc[w] = "w_vid" /\ f = VideoPath(w)
    \/ w_pc[w] = "w_aud" /\ f = AudioPath(w)

CancelWorkers ==
    /\ w_pc' = [w \in Workers |-> CancelledPc(w)]
    /\ \E land \in [Downloaders -> BOOLEAN] :
          files' = [f \in FileNames |->
              LET w == IF f \in {"video_past", "audio_past"} THEN "past" ELSE "live"
              IN  IF land[w] /\ PendingWrite(w, f)
                  THEN Append(files[f], w_t[w]) ELSE files[f]]

\* ------------------------------------------------------------------ run()
run_start ==
    /\ main_pc = "init"
    /\ segments_dir' = TRUE
    /\ main_pc' = "fetch_initial_mpd"
    /\ UNCHANGED <<svars, xvars, run_outcome, finalize_calls, n_sigint, no_past, initial_t,
                   publish_frame_time, w_pc, w_t, files, live_download_queue,
                   queued_live_timestamps, last_new_segment_time, now,
                   total_expected_segments, missing_segment_timestamps,
                   first_segment_t>>

\* A run() whose finaliser is the last statement of the try block instead of
\* a finally clause (a variant that breaks C4).
run_finally_on_success_only(raised) ==
    /\ finalize_calls' = IF raised THEN finalize_calls ELSE finalize_calls + 1
    /\ run_outcome' = IF raised THEN "raised" ELSE "returned"
    /\ main_pc' = "closing"

\* The finally clause of run(): the finaliser, then the exception (if any)
\* goes on through "async with session", which awaits the session's close.
run_finally(raised) ==
    /\ finalize_calls' = finalize_calls + 1
    /\ run_outcome' = IF raised THEN "raised" ELSE "returned"
    /\ main_pc' = "closing"

\* The initial manifest: parsed into stream_info, or the fetch/parse raises.
fetch_initial_mpd_done ==
    /\ main_pc = "fetch_initial_mpd"
    /\ \/ /\ \E t0 \in TS, pft \in TS \cup {None} :
                /\ initial_t' = t0
                /\ publish_frame_time' = pft
          /\ main_pc' = "download_init_segments"
          /\ UNCHANGED <<finalize_calls, run_outcome>>
       \/ /\ run_finally(TRUE)
          /\ UNCHANGED <<initial_t, publish_frame_time>>
    /\ UNCHANGED <<svars, xvars, segments_dir, n_sigint, no_past, w_pc, w_t, files,
                   live_download_queue, queued_live_timestamps,
                   last_new_segment_time, now, total_expected_segments,
                   missing_segment_timestamps, first_segment_t>>

\* The two media types, each with an init file and a past file.
InitMedia == {"video", "audio"}

\* The bytes of the two init segments.
InitContent == [video |-> "video_init", audio |-> "audio_init"]

\* An init check that is satisfied by one of the two downloads (a variant
\* that breaks C22).
AllDownloaded_any(downloads) == \E m \in InitMedia : downloads[m]

\* all(downloads)
AllDownloaded(downloads) == \A m \in InitMedia : downloads[m]

\* The gather of the two download_file calls is over: each wrote its init
\* file when its GET gave bytes.  Both downloaded: the workers are handed to
\* gather.  One missing: RuntimeError.
download_init_segments_done ==
    /\ main_pc = "download_init_segments"
    /\ \E downloads \in [InitMedia -> BOOLEAN] :
          /\ init_files' = [m \in InitMedia |->
                               IF downloads[m] THEN InitContent[m] ELSE "absent"]
          /\ IF AllDownloaded(downloads)
             THEN /\ main_pc' = "gather"
                  /\ w_pc' = [w \in Workers |->
                                IF w \notin Started THEN "unstarted"
                                ELSE IF w = "poll" THEN "sleep"
                                ELSE IF w = "live" THEN "get" ELSE "start"]
                  /\ UNCHANGED <<finalize_calls, run_outcome>>
             ELSE /\ run_finally(TRUE)
                  /\ UNCHANGED w_pc
    /\ UNCHANGED <<svars, fvars, gvars, ovars, past_seed, probe_in, segments_dir, n_sigint, no_past,
                   initial_t, publish_frame_time, w_t, files, live_download_queue,
                   queued_live_timestamps, last_new_segment_time, now,
                   total_expected_segments, missing_segment_timestamps,
                   first_segment_t>>

\* await asyncio.gather(*tasks) is over: every worker returned, or the first
\* worker to raise or to end cancelled makes gather raise.
run_gather_done ==
    /\ main_pc = "gather"
    /\ \/ \E w \in Started : w_pc[w] \in {"raised", "cancelled"}
       \/ \A w \in Started : w_pc[w] = "returned"
    /\ run_finally(\E w \in Started : w_pc[w] # "returned")
    /\ UNCHANGED <<svars, xvars, segments_dir, n_sigint, no_past, initial_t,
                   publish_frame_time, w_pc, w_t, files, live_download_queue,
                   queued_live_timestamps, last_new_segment_time, now,
                   total_expected_segments, missing_segment_timestamps,
                   first_segment_t>>

\* The session is closed and run() is left; asyncio.run then cancels every
\* task that is still running and waits for it.
run_exit ==
    /\ main_pc = "closing"
    /\ main_pc' = "done"
    /\ CancelWorkers
    /\ UNCHANGED <<svars, xvars, run_outcome, segments_dir, finalize_calls, n_sigint,
                   no_past, initial_t, publish_frame_time, w_t,
                   live_download_queue, queued_live_timestamps,
                   last_new_segment_time, now, total_expected_segments,
                   missing_segment_timestamps, first_segment_t>>

\* The main task is cancelled (an interrupt) while run() awaits: in the
\* init phase the CancelledError reaches the finally clause; in gather it is
\* passed to the workers and run() goes on waiting for gather's outcome.
run_cancelled ==
    /\ n_sigint = 0
    /\ n_sigint' = 1
    /\ \/ /\ main_pc \in {"fetch_initial_mpd", "download_init_segments"}
          /\ run_finally(TRUE)
          /\ UNCHANGED <<w_pc, files>>
       \/ /\ main_pc = "gather"
          /\ CancelWorkers
          /\ UNCHANGED <<main_pc, run_outcome, finalize_calls>>
    /\ UNCHANGED <<svars, xvars, segments_dir, no_past, initial_t, publish_frame_time,
                   w_t, live_download_queue, queued_live_timestamps,
                   last_new_segment_time, now, total_expected_segments,
                   missing_segment_timestamps, first_segment_t>>

\* ------------------------------------------------------------ live poller
\* The S entries of a polled manifest, in document order.
Manifests == UNION {[1 .. n -> TS] : n \in 0 .. MaxS}

\* What fetch_and_parse_mpd and the walk over the timeline can meet.
PollResponses ==
    {[kind |-> k, S |-> <<>>] : k \in {"none", "no_timeline", "bad_t"}}
        \cup {[kind |-> "timeline", S |-> m] : m \in Manifests}

\* A walk that enqueues every S entry from initial_t on without consulting
\* the set of queued timestamps (a variant that breaks C36).
NewSegments_unseen(S, seen) == SelectSeq(S, LAMBDA t : t >= initial_t)

\* The timestamps the for loop over the S entries puts on the queue.
RECURSIVE NewSegments(_, _)
NewSegments(S, seen) ==
    IF S = <<>> THEN <<>>
    ELSE LET t == Head(S) IN
         IF t >= initial_t /\ t \notin seen
         THEN <<t>> \o NewSegments(Tail(S), seen \cup {t})
         ELSE NewSegments(Tail(S), seen)

SeqRange(q) == {q[i] : i \in 1 .. Len(q)}

\* A poller that puts the sentinel on the queue and goes on polling instead
\* of leaving its loop (a variant that breaks C17).
poll_live_manifest_without_break(is_ended, root) ==
    IF is_ended
    THEN /\ live_download_queue' = Append(live_download_queue, None)
         /\ SetPc("poll", "sleep")
         /\ UNCHANGED <<queued_live_timestamps, last_new_segment_time>>
    ELSE IF root.kind \in {"none", "no_timeline", "bad_t"}
    THEN /\ SetPc("poll", "sleep")
         /\ UNCHANGED <<live_download_queue, queued_live_timestamps,
                        last_new_segment_time>>
    ELSE LET new == NewSegments(root.S, queued_live_timestamps) IN
         /\ queued_live_timestamps' = queued_live_timestamps \cup SeqRange(new)
         /\ live_download_queue' = live_download_queue \o new
         /\ SetPc("poll", "sleep")
         /\ IF new # <<>>
            THEN last_new_segment_time' = now'
            ELSE UNCHANGED last_new_segment_time

\* A poller without the test for a manifest that is None: root.find raises
\* AttributeError (a variant that breaks C38).
poll_live_manifest_unguarded(is_ended, root) ==
    IF is_ended
    THEN /\ live_download_queue' = Append(live_download_queue, None)
         /\ SetPc("poll", "returned")
         /\ UNCHANGED <<queued_live_timestamps, last_new_segment_time>>
    ELSE IF root.kind = "no_timeline"
    THEN /\ SetPc("poll", "sleep")
         /\ UNCHANGED <<live_download_queue, queued_live_timestamps,
                        last_new_segment_time>>
    ELSE IF root.kind \in {"none", "bad_t"}
    THEN /\ SetPc("poll", "raised")
         /\ UNCHANGED <<live_download_queue, queued_live_timestamps,
                        last_new_segment_time>>
    ELSE LET new == NewSegments(root.S, queued_live_timestamps) IN
         /\ queued_live_timestamps' = queued_live_timestamps \cup SeqRange(new)
         /\ IF new # <<>>
            THEN /\ last_new_segment_time' = now'
                 /\ live_download_queue' = live_download_queue \o new
                 /\ SetPc("poll", "sleep")
            ELSE IF last_new_segment_time # None
                    /\ now' - last_new_segment_time > live_end_timeout
            THEN /\ live_download_queue' = Append(live_download_queue, None)
                 /\ SetPc("poll", "returned")
                 /\ UNCHANGED last_new_segment_time
            ELSE /\ SetPc("poll", "sleep")
                 /\ UNCHANGED <<live_download_queue, last_new_segment_time>>

\* The body of the poller's loop after the fetch: the end header, a manifest
\* that is None, a manifest without timeline, the walk over the S entries
\* and the end-of-stream timeout.
poll_live_manifest(is_ended, root) ==
    IF is_ended
    THEN /\ live_download_queue' = Append(live_download_queue, None)
         /\ SetPc("poll", "returned")
         /\ UNCHANGED <<queued_live_timestamps, last_new_segment_time>>
    ELSE IF root.kind \in {"none", "no_timeline"}
    THEN /\ SetPc("poll", "sleep")
         /\ UNCHANGED <<live_download_queue, queued_live_timestamps,
                        last_new_segment_time>>
    ELSE IF root.kind = "bad_t"
    THEN \* int(segment.get("t")) raises ValueError
         /\ SetPc("poll", "raised")
         /\ UNCHANGED <<live_download_queue, queued_live_timestamps,
                        last_new_segment_time>>
    ELSE LET new == NewSegments(root.S, queued_live_timestamps) IN
         /\ queued_live_timestamps' = queued_live_timestamps \cup SeqRange(new)
         /\ IF new # <<>>
            THEN /\ last_new_segment_time' = now'
                 /\ live_download_queue' = live_download_queue \o new
                 /\ SetPc("poll", "sleep")
            ELSE IF last_new_segment_time # None
                    /\ now' - last_new_segment_time > live_end_timeout
            THEN /\ live_download_queue' = Append(live_download_queue, None)
                 /\ SetPc("poll", "returned")
                 /\ UNCHANGED last_new_segment_time
            ELSE /\ SetPc("poll", "sleep")
                 /\ UNCHANGED <<live_download_queue, last_new_segment_time>>

\* One iteration of the poller's loop: the sleep of poll_interval, the
\* fetch of the manifest and the walk over its S entries (the queue is
\* unbounded: put never suspends).
poll_iteration_fetching(is_ended, root) ==
    /\ w_pc["poll"] = "sleep"
    /\ now < MaxTime
    /\ now' = now + poll_interval
    /\ poll_live_manifest(is_ended, root)
    /\ UNCHANGED <<svars, xvars, main_pc, run_outcome, segments_dir, finalize_calls,
                   n_sigint, no_past, initial_t, publish_frame_time, w_t, files,
                   total_expected_segments, missing_segment_timestamps,
                   first_segment_t>>

\* An iteration of the poller on whatever the manifest fetch gives.
poll_iteration ==
    \E is_ended \in BOOLEAN, root \in PollResponses :
        poll_iteration_fetching(is_ended, root)

\* ------------------------------------------------- the segment pair fetcher
\* A caller that goes on after a failed pair without recording the
\* timestamp (a variant that breaks C30).
PairFailed_unrecorded(w) ==
    /\ UNCHANGED missing_segment_timestamps
    /\ SetPc(w, IF w = "past" THEN "search" ELSE "get")

\* download_and_append_segment returned False: what its caller does next.
\* The past worker searches from current_t + 1; the live downloader takes
\* the next queue item.
PairFailed(w) ==
    /\ missing_segment_timestamps' = missing_segment_timestamps \cup {w_t[w]}
    /\ SetPc(w, IF w = "past" THEN "search" ELSE "get")

\* asyncio.gather of the two fetch_url_content calls is over.
download_fetched_with(w, video_content, audio_content) ==
    /\ w_pc[w] = "fetch"
    /\ IF video_content /\ audio_content
       THEN /\ SetPc(w, "w_vid")
            /\ UNCHANGED missing_segment_timestamps
       ELSE PairFailed(w)
    /\ UNCHANGED <<svars, xvars, main_pc, run_outcome, segments_dir, finalize_calls,
                   n_sigint, no_past, initial_t, publish_frame_time, w_t, files,
                   live_download_queue, queued_live_timestamps,
                   last_new_segment_time, now, total_expected_segments,
                   first_segment_t>>

\* The two GETs of a pair, each giving bytes or not.
download_fetched(w) ==
    \E video_content, audio_content \in BOOLEAN :
        download_fetched_with(w, video_content, audio_content)

\* async with aiofiles.open(video_path, "ab"): the video bytes are in the
\* file, or OSError.
download_write_video(w) ==
    /\ w_pc[w] = "w_vid"
    /\ \/ /\ files' = [files EXCEPT ![VideoPath(w)] = Append(@, w_t[w])]
          /\ SetPc(w, "w_aud")
       \/ /\ SetPc(w, "raised")
          /\ UNCHANGED files
    /\ UNCHANGED <<svars, xvars, main_pc, run_outcome, segments_dir, finalize_calls,
                   n_sigint, no_past, initial_t, publish_frame_time, w_t,
                   live_download_queue, queued_live_timestamps,
                   last_new_segment_time, now, total_expected_segments,
                   missing_segment_timestamps, first_segment_t>>

\* -------------------------------------------------------- live downloader
\* A live downloader that takes the sentinel for one more item and goes back
\* to the queue (a variant that breaks C6).
live_get_ignoring_sentinel ==
    /\ w_pc["live"] = "get"
    /\ live_download_queue # <<>>
    /\ live_download_queue' = Tail(live_download_queue)
    /\ IF Head(live_download_queue) = None
       THEN UNCHANGED <<w_pc, w_t, total_expected_segments>>
       ELSE /\ total_expected_segments' = total_expected_segments + 1
            /\ w_t' = [w_t EXCEPT !["live"] = Head(live_download_queue)]
            /\ SetPc("live", "fetch")
    /\ UNCHANGED <<svars, xvars, main_pc, run_outcome, segments_dir, finalize_calls,
                   n_sigint, no_past, initial_t, publish_frame_time, files,
                   queued_live_timestamps, last_new_segment_time, now,
                   missing_segment_timestamps, first_segment_t>>

\* A live downloader that takes the item at the back of the queue (a variant
\* that breaks C18).
live_get_from_back ==
    /\ w_pc["live"] = "get"
    /\ live_download_queue # <<>>
    /\ live_download_queue' =
          SubSeq(live_download_queue, 1, Len(live_download_queue) - 1)
    /\ IF live_download_queue[Len(live_download_queue)] = None
       THEN /\ SetPc("live", "returned")
            /\ UNCHANGED <<w_t, total_expected_segments>>
       ELSE /\ total_expected_segments' = total_expected_segments + 1
            /\ w_t' = [w_t EXCEPT !["live"] =
                                   live_download_queue[Len(live_download_queue)]]
            /\ SetPc("live", "fetch")
    /\ UNCHANGED <<svars, xvars, main_pc, run_outcome, segments_dir, finalize_calls,
                   n_sigint, no_past, initial_t, publish_frame_time, files,
                   queued_live_timestamps, last_new_segment_time, now,
                   missing_segment_timestamps, first_segment_t>>

\* A live downloader that starts its attempts without counting them (a
\* variant that breaks C31).
live_get_uncounted ==
    /\ w_pc["live"] = "get"
    /\ live_download_queue # <<>>
    /\ live_download_queue' = Tail(live_download_queue)
    /\ IF Head(live_download_queue) = None
       THEN /\ SetPc("live", "returned")
            /\ UNCHANGED w_t
       ELSE /\ w_t' = [w_t EXCEPT !["live"] = Head(live_download_queue)]
            /\ SetPc("live", "fetch")
    /\ UNCHANGED <<svars, xvars, main_pc, run_outcome, segments_dir, finalize_calls,
                   n_sigint, no_past, initial_t, publish_frame_time, files,
                   queued_live_timestamps, last_new_segment_time, now,
                   total_expected_segments, missing_segment_timestamps,
                   first_segment_t>>

\* timestamp = await queue.get(), up to the await of the pair download.
live_get ==
    /\ w_pc["live"] = "get"
    /\ live_download_queue # <<>>
    /\ live_download_queue' = Tail(live_download_queue)
    /\ IF Head(live_download_queue) = None
       THEN /\ SetPc("live", "returned")
            /\ UNCHANGED <<w_t, total_expected_segments>>
       ELSE /\ total_expected_segments' = total_expected_segments + 1
            /\ w_t' = [w_t EXCEPT !["live"] = Head(live_download_queue)]
            /\ SetPc("live", "fetch")
    /\ UNCHANGED <<svars, xvars, main_pc, run_outcome, segments_dir, finalize_calls,
                   n_sigint, no_past, initial_t, publish_frame_time, files,
                   queued_live_timestamps, last_new_segment_time, now,
                   missing_segment_timestamps, first_segment_t>>

\* The audio bytes are in the file and the pair download returns True:
\* task_done, back to the queue.  Or the append raises OSError.
live_downloaded ==
    /\ w_pc["live"] = "w_aud"
    /\ \/ /\ files' = [files EXCEPT !["audio_live"] = Append(@, w_t["live"])]
          /\ SetPc("live", "get")
       \/ /\ SetPc("live", "raised")
          /\ UNCHANGED files
    /\ UNCHANGED <<svars, xvars, main_pc, run_outcome, segments_dir, finalize_calls,
                   n_sigint, no_past, initial_t, publish_frame_time, w_t,
                   live_download_queue, queued_live_timestamps,
                   last_new_segment_time, now, total_expected_segments,
                   missing_segment_timestamps, first_segment_t>>

\* ------------------------------------------------------------ past worker
\* What a forward search from start_t can return: a timestamp it probed, or
\* None.
SearchResults(start_t) == {None} \cup {t \in TS : t >= start_t}

\* What ffprobe can print as duration_ts: any integer; None when it fails.
ProbeResults == {None} \cup TS

\* The lines ffprobe can print: an integer, or some other text.
Lines == {[text |-> "int", value |-> t] : t \in TS}
            \cup {[text |-> "other", value |-> 0]}

Stdouts == UNION {[1 .. n -> Lines] : n \in 0 .. MaxLines}

\* What a call of the probe can meet: the file it is given, whether the
\* ffprobe executable can be started, its exit status and its output.
ProbeOutcomes ==
    [file : {"missing", "empty", "data"}, starts : BOOLEAN,
     exit : {0, 1}, stdout : Stdouts]

\* No probe outcome is given: the past worker meets any of them.
NoProbe == [file |-> "none", starts |-> FALSE, exit |-> 0, stdout |-> <<>>]

\* get_next_pts_from_concatenated_file: the value it returns, or raised
\* when an exception leaves it.
get_next_pts_from_concatenated_file(o) ==
    IF o.file \in {"missing", "empty"}
    THEN [raised |-> FALSE, value |-> None]
    ELSE IF ~o.starts
    THEN \* subprocess.run raises FileNotFoundError, which is neither a
         \* CalledProcessError nor a ValueError
         [raised |-> TRUE, value |-> None]
    ELSE IF o.exit # 0
    THEN [raised |-> FALSE, value |-> None]
    ELSE IF Len(o.stdout) = 1 /\ o.stdout[1].text = "int"
    THEN [raised |-> FALSE, value |-> o.stdout[1].value]
    ELSE \* int() of anything else: ValueError
         [raised |-> FALSE, value |-> None]

\* A while test without "current_t < initial_t" (a variant that breaks
\* C7).
PastLoop_unbounded(t) ==
    IF t # None
    THEN /\ total_expected_segments < MaxAttempts
         /\ total_expected_segments' = total_expected_segments + 1
         /\ w_t' = [w_t EXCEPT !["past"] = t]
         /\ SetPc("past", "fetch")
    ELSE /\ w_t' = [w_t EXCEPT !["past"] = None]
         /\ SetPc("past", "returned")
         /\ UNCHANGED total_expected_segments

\* A worker without the test for a search that found nothing: the while
\* test compares None with initial_t and raises TypeError (a variant that
\* breaks C37).
PastLoop_unchecked(t) ==
    IF t = None
    THEN /\ SetPc("past", "raised")
         /\ UNCHANGED <<w_t, total_expected_segments>>
    ELSE IF t < initial_t
    THEN /\ total_expected_segments < MaxAttempts
         /\ total_expected_segments' = total_expected_segments + 1
         /\ w_t' = [w_t EXCEPT !["past"] = t]
         /\ SetPc("past", "fetch")
    ELSE /\ w_t' = [w_t EXCEPT !["past"] = None]
         /\ SetPc("past", "returned")
         /\ UNCHANGED total_expected_segments

\* The while test and the head of the loop body, up to the pair download.
PastLoop(t) ==
    IF t # None /\ t < initial_t
    THEN /\ total_expected_segments < MaxAttempts
         /\ total_expected_segments' = total_expected_segments + 1
         /\ w_t' = [w_t EXCEPT !["past"] = t]
         /\ SetPc("past", "fetch")
    ELSE /\ w_t' = [w_t EXCEPT !["past"] = None]
         /\ SetPc("past", "returned")
         /\ UNCHANGED total_expected_segments

\* A seeding that copies the video init file only (a variant that breaks
\* C27).
SeedPastFiles_video_only ==
    past_seed' = [m \in InitMedia |->
                    IF m = "video" THEN init_files[m] ELSE "absent"]

\* shutil.copyfile of each init file over the past file of its media type,
\* the first statements of the past worker.
SeedPastFiles ==
    past_seed' = [m \in InitMedia |-> init_files[m]]

\* The end of an iteration: asyncio.sleep(wait_time) when the iteration was
\* shorter than past_segment_delay, then the while test.
PastEndIteration(t) ==
    \/ PastLoop(t)
    \/ /\ w_t' = [w_t EXCEPT !["past"] = t]
       /\ SetPc("past", "delay")
       /\ UNCHANGED total_expected_segments

\* The past worker up to its first await: the seeding of the past files,
\* then the first timestamp from publish_frame_time or from a search from 0.
past_start ==
    /\ w_pc["past"] = "start"
    /\ SeedPastFiles
    /\ IF publish_frame_time # None
       THEN PastLoop(publish_frame_time)
       ELSE /\ SetPc("past", "search0")
            /\ UNCHANGED <<w_t, total_expected_segments>>
    /\ UNCHANGED <<svars, fvars, gvars, ovars, init_files, probe_in, main_pc,
                   run_outcome, segments_dir, finalize_calls, n_sigint, no_past,
                   initial_t, publish_frame_time, files,
                   live_download_queue, queued_live_timestamps,
                   last_new_segment_time, now, missing_segment_timestamps,
                   first_segment_t>>

\* search_forwards_for_next_segment returned to the past worker.
past_search_done ==
    /\ w_pc["past"] \in {"search0", "search"}
    /\ IF w_pc["past"] = "search0"
       THEN \E current_t \in SearchResults(0) : PastLoop(current_t)
       ELSE \E current_t \in SearchResults(w_t["past"] + 1) :
                PastEndIteration(current_t)
    /\ UNCHANGED <<svars, xvars, main_pc, run_outcome, segments_dir, finalize_calls,
                   n_sigint, no_past, initial_t, publish_frame_time, files,
                   live_download_queue, queued_live_timestamps,
                   last_new_segment_time, now, missing_segment_timestamps,
                   first_segment_t>>

\* The cancelled search has drained its probes: the CancelledError goes on
\* and ends the past worker.
past_search_drained ==
    /\ w_pc["past"] = "search_cleanup"
    /\ SetPc("past", "cancelled")
    /\ UNCHANGED <<svars, xvars, main_pc, run_outcome, segments_dir, finalize_calls,
                   n_sigint, no_past, initial_t, publish_frame_time, w_t, files,
                   live_download_queue, queued_live_timestamps,
                   last_new_segment_time, now, total_expected_segments,
                   missing_segment_timestamps, first_segment_t>>

\* first_segment_t after a pair download that returned True.
FirstSegmentT(current_t) ==
    IF first_segment_t = None \/ current_t < first_segment_t
    THEN current_t ELSE first_segment_t

\* The audio bytes are in the file and the pair download returns True:
\* first_segment_t, then the probe, which meets o.  Or the append raises
\* OSError.
past_downloaded_probing(o) ==
    /\ w_pc["past"] = "w_aud"
    /\ \/ /\ files' = [files EXCEPT !["audio_past"] = Append(@, w_t["past"])]
          /\ first_segment_t' = FirstSegmentT(w_t["past"])
          /\ LET next_t == get_next_pts_from_concatenated_file(o) IN
             IF next_t.raised
             THEN /\ SetPc("past", "raised")
                  /\ UNCHANGED <<w_t, total_expected_segments>>
             ELSE IF next_t.value # None
             THEN PastEndIteration(next_t.value)
             ELSE /\ SetPc("past", "search")
                  /\ UNCHANGED <<w_t, total_expected_segments>>
       \/ /\ SetPc("past", "raised")
          /\ UNCHANGED <<files, first_segment_t, w_t, total_expected_segments>>
    /\ UNCHANGED <<svars, xvars, main_pc, run_outcome, segments_dir, finalize_calls,
                   n_sigint, no_past, initial_t, publish_frame_time,
                   live_download_queue, queued_live_timestamps,
                   last_new_segment_time, now, missing_segment_timestamps>>

\* In a run the probe is given the past video file, which holds the pair
\* just appended.
past_downloaded ==
    \E o \in ProbeOutcomes : o.file = "data" /\ past_downloaded_probing(o)

past_delay_done ==
    /\ w_pc["past"] = "delay"
    /\ PastLoop(w_t["past"])
    /\ UNCHANGED <<svars, xvars, main_pc, run_outcome, segments_dir, finalize_calls,
                   n_sigint, no_past, initial_t, publish_frame_time, files,
                   live_download_queue, queued_live_timestamps,
                   last_new_segment_time, now, missing_segment_timestamps,
                   first_segment_t>>

\* ------------------------------------------------------ the GET primitive
GetStatuses == {200, 404, 403, 429, 500, NoResponse}

\* What one attempt of session.get can meet: a response with a status, with
\* or without the x-fb-video-broadcast-ended header, and a body; or a
\* transport error or timeout.
Responses ==
    {[status |-> 200, ended |-> e, body |-> b] :
        e \in BOOLEAN, b \in {"empty", "xml", "garbage"}}
    \cup {[status |-> st, ended |-> e, body |-> "empty"] :
            st \in GetStatuses \ {200, NoResponse}, e \in BOOLEAN}
    \cup {[status |-> NoResponse, ended |-> FALSE, body |-> "empty"]}

HeadersOf(resp) == IF resp.ended THEN "ended" ELSE "plain"

\* A GET that takes no 4xx for final (a variant that breaks C15).
GivesUp_never(status) == FALSE

\* if 400 <= response.status < 500 and response.status != 429: break
GivesUp(status) ==
    status # NoResponse /\ 400 <= status /\ status < 500 /\ status # 429

\* fetch_url_content returns.
FetchReturns(content, headers) ==
    /\ g_pc' = "done"
    /\ g_content' = content
    /\ g_headers' = headers
    /\ UNCHANGED <<g_attempt, g_delay, g_sleeps>>

\* fetch_url_content is called: delay = retry_delay, the first attempt.
fetch_url_content_call ==
    /\ g_pc = "idle"
    /\ g_pc' = "get"
    /\ g_attempt' = 0
    /\ g_delay' = download_retry_delay
    /\ UNCHANGED <<pvars, svars, ivars, ovars, fvars, g_sleeps, g_log, g_content, g_headers,
                   m_root, m_is_ended>>

\* One attempt of the for loop is answered (or fails).
fetch_url_content_response ==
    /\ g_pc = "get"
    /\ \E resp \in Responses :
          /\ g_log' = Append(g_log, resp)
          /\ IF resp.status = 200
             THEN FetchReturns(resp.body, HeadersOf(resp))
             ELSE IF resp.status = 404
             THEN FetchReturns("none", HeadersOf(resp))
             ELSE IF GivesUp(resp.status)
             THEN FetchReturns("none", "none")
             ELSE IF g_attempt < download_retries - 1
             THEN /\ g_pc' = "sleep"
                  /\ g_sleeps' = Append(g_sleeps, g_delay)
                  /\ g_delay' = g_delay * 2
                  /\ UNCHANGED <<g_attempt, g_content, g_headers>>
             ELSE FetchReturns("none", "none")
    /\ UNCHANGED <<pvars, svars, ivars, ovars, fvars, m_root, m_is_ended>>

\* asyncio.sleep(delay) is over: the next attempt.
fetch_url_content_wake ==
    /\ g_pc = "sleep"
    /\ g_pc' = "get"
    /\ g_attempt' = g_attempt + 1
    /\ UNCHANGED <<pvars, svars, ivars, ovars, fvars, g_delay, g_sleeps, g_log, g_content,
                   g_headers, m_root, m_is_ended>>

\* fetch_and_parse_mpd after its fetch: is_ended from the headers, the root
\* from the body (no body, or a body etree cannot parse: None).
fetch_and_parse_mpd_return ==
    /\ g_pc = "done"
    /\ g_pc' = "parsed"
    /\ m_is_ended' = (g_headers = "ended")
    /\ m_root' = IF g_content = "xml" THEN "root" ELSE "none"
    /\ UNCHANGED <<pvars, svars, ivars, ovars, fvars, g_attempt, g_delay, g_sleeps, g_log,
                   g_content, g_headers>>

\* No GET in progress.
FetchIdle ==
    /\ g_pc = "idle"
    /\ g_attempt = 0
    /\ g_delay = download_retry_delay
    /\ g_sleeps = <<>>
    /\ g_log = <<>>
    /\ g_content = "none"
    /\ g_headers = "none"
    /\ m_root = "none"
    /\ m_is_ended = FALSE

\* The caller has taken (root, is_ended): the call's state is gone.
fetch_and_parse_mpd_taken ==
    /\ g_pc = "parsed"
    /\ g_pc' = "idle"
    /\ g_attempt' = 0
    /\ g_delay' = download_retry_delay
    /\ g_sleeps' = <<>>
    /\ g_log' = <<>>
    /\ g_content' = "none"
    /\ g_headers' = "none"
    /\ m_root' = "none"
    /\ m_is_ended' = FALSE
    /\ UNCHANGED <<pvars, svars, ivars, ovars, fvars>>

\* ---------------------------------------------------------- the finaliser
\* What a staging file can hold: segment bodies, in the order appended.
Bodies == 1 .. NumBodies
FileContents == UNION {[1 .. n -> Bodies] : n \in 0 .. MaxFileLen}
FileStates == {<<>>} \cup {<<c>> : c \in FileContents}

\* with dest.open("wb"): copyfileobj of the past file, then of the live
\* file; a part that does not exist is skipped.
ConcatParts(past, live) ==
    (IF past # <<>> THEN past[1] ELSE <<>>) \o (IF live # <<>> THEN live[1] ELSE <<>>)

\* The muxer run with "-i video_full -i audio_full -c copy -y output": its
\* output is a function of its two inputs.
MuxOutput(v, a) == <<v, a>>

\* A finaliser that removes the staging directory whatever keep_segments
\* says (a variant that breaks C11).
CleansUp_always == TRUE

\* if not downloader.keep_segments: shutil.rmtree(segments_dir)
CleansUp == ~keep_segments

\* The call is over: how it ended and what it left at output_path.
FinalizeEnds(pc, out) ==
    /\ f_pc' = pc
    /\ output_file' = out
    /\ outputs' = Append(outputs, out)

\* finalize_video, one synchronous call.
finalize_video ==
    /\ f_calls < MaxFinalize
    /\ f_calls' = f_calls + 1
    /\ IF ~staging_dir_exists \/ open_fails
       THEN \* video_full_path.open("wb") raises (FileNotFoundError, OSError)
            /\ FinalizeEnds("raised", output_file)
            /\ UNCHANGED <<staging_dir_exists, staged, video_full, audio_full, muxed>>
       ELSE LET v == ConcatParts(staged["video_past"], staged["video_live"])
                a == ConcatParts(staged["audio_past"], staged["audio_live"])
            IN  IF v = <<>>
                THEN \* "No video data was downloaded": return
                     /\ FinalizeEnds("returned", output_file)
                     /\ video_full' = <<v>>
                     /\ audio_full' = <<a>>
                     /\ UNCHANGED <<staging_dir_exists, staged, muxed>>
                ELSE IF ffmpeg # "ok"
                THEN \* CalledProcessError, or the Exception of a muxer
                     \* that cannot be started: logged
                     /\ FinalizeEnds("returned", output_file)
                     /\ video_full' = <<v>>
                     /\ audio_full' = <<a>>
                     /\ UNCHANGED <<staging_dir_exists, staged, muxed>>
                ELSE /\ FinalizeEnds("returned", <<MuxOutput(v, a)>>)
                     /\ muxed' = TRUE
                     /\ IF CleansUp
                        THEN /\ staging_dir_exists' = FALSE
                             /\ staged' = [f \in FileNames |-> <<>>]
                             /\ video_full' = <<>>
                             /\ audio_full' = <<>>
                        ELSE /\ video_full' = <<v>>
                             /\ audio_full' = <<a>>
                             /\ UNCHANGED <<staging_dir_exists, staged>>
    /\ UNCHANGED <<pvars, svars, ivars, ovars, gvars, keep_segments, ffmpeg, open_fails>>

\* ------------------------------------------------- select_representation
MimeTypes == {"video/mp4", "audio/mp4"}
RepIds == {"a", "b"}

\* A Representation element: its id, mimeType and bandwidth attributes.
Representations ==
    [id : RepIds, mimeType : MimeTypes, bandwidth : 1 .. MaxBandwidth]

Roots == UNION {[1 .. n -> Representations] : n \in 0 .. MaxReps}
PreferredIds == UNION {[1 .. n -> RepIds] : n \in 0 .. MaxPreferred}

\* The positions in the document of the elements the xpath query selects,
\* in document order.
RECURSIVE AllReps(_, _, _)
AllReps(root, media_type, i) ==
    IF i > Len(root) THEN <<>>
    ELSE IF root[i].mimeType = media_type
    THEN <<i>> \o AllReps(root, media_type, i + 1)
    ELSE AllReps(root, media_type, i + 1)

\* for rep in all_reps: if rep.get("id") == rep_id: return rep.  0: no match.
RECURSIVE FindRep(_, _, _)
FindRep(root, all_reps, rep_id) ==
    IF all_reps = <<>> THEN 0
    ELSE IF root[Head(all_reps)].id = rep_id THEN Head(all_reps)
    ELSE FindRep(root, Tail(all_reps), rep_id)

\* for rep_id in preferred_ids: the first id with a match.  0: none.
RECURSIVE FindPreferred(_, _, _)
FindPreferred(root, all_reps, preferred_ids) ==
    IF preferred_ids = <<>> THEN 0
    ELSE LET rep == FindRep(root, all_reps, Head(preferred_ids)) IN
         IF rep # 0 THEN rep
         ELSE FindPreferred(root, all_reps, Tail(preferred_ids))

\* max(all_reps, key=bandwidth): the first of the largest.
RECURSIVE MaxRep(_, _, _)
MaxRep(root, all_reps, best) ==
    IF all_reps = <<>> THEN best
    ELSE IF root[Head(all_reps)].bandwidth > root[best].bandwidth
    THEN MaxRep(root, Tail(all_reps), Head(all_reps))
    ELSE MaxRep(root, Tail(all_reps), best)

\* A selection that walks the representations and takes the first one whose
\* id is any of the preferred ids (a variant that breaks C25).
select_representation_document_first(root, media_type, preferred_ids) ==
    LET all_reps == AllReps(root, media_type, 1)
        wanted == {i \in SeqRange(all_reps) :
                      \E k \in 1 .. Len(preferred_ids) :
                          root[i].id = preferred_ids[k]}
    IN  IF all_reps = <<>> THEN [raised |-> TRUE, rep |-> 0]
        ELSE IF wanted # {}
        THEN [raised |-> FALSE,
              rep |-> CHOOSE i \in wanted : \A j \in wanted : i <= j]
        ELSE [raised |-> FALSE,
              rep |-> MaxRep(root, Tail(all_reps), Head(all_reps))]

\* select_representation: the position in the document of the element it
\* returns, or raised for its ValueError.
select_representation(root, media_type, preferred_ids) ==
    LET all_reps == AllReps(root, media_type, 1) IN
    IF all_reps = <<>> THEN [raised |-> TRUE, rep |-> 0]
    ELSE LET rep == FindPreferred(root, all_reps, preferred_ids) IN
         IF preferred_ids # <<>> /\ rep # 0
         THEN [raised |-> FALSE, rep |-> rep]
         ELSE [raised |-> FALSE,
               rep |-> MaxRep(root, Tail(all_reps), Head(all_reps))]

\* select_representation has not been called.
NotSelected == [raised |-> FALSE, rep |-> 0]

SelectIdle ==
    /\ sel_root = <<>>
    /\ sel_media_type = "video/mp4"
    /\ sel_preferred_ids = <<>>
    /\ sel_result = NotSelected

select_representation_call ==
    /\ sel_result = NotSelected
    /\ sel_result' = select_representation(sel_root, sel_media_type,
                                            sel_preferred_ids)
    /\ UNCHANGED <<pvars, svars, fvars, gvars, ivars, sel_root, sel_media_type,
                   sel_preferred_ids>>

\* ---------------------------------------------------------- specification
\* The finaliser before run() has created the staging directory.
FinaliserIdle ==
    /\ f_pc = "idle"
    /\ f_calls = 0
    /\ staging_dir_exists = FALSE
    /\ staged = [f \in FileNames |-> <<>>]
    /\ video_full = <<>>
    /\ audio_full = <<>>
    /\ output_file = <<>>
    /\ outputs = <<>>
    /\ keep_segments = FALSE
    /\ ffmpeg = "ok"
    /\ open_fails = FALSE
    /\ muxed = FALSE

\* The loss counters of a new StreamDownloader, which loss_check.py reads
\* and past.py and live.py update: nothing attempted, nothing missing, no
\* first segment.
LossCountersIdle ==
    /\ total_expected_segments = 0
    /\ missing_segment_timestamps = {}
    /\ first_segment_t = None

\* The run before run() is called.
RunIdle ==
    /\ main_pc = "init"
    /\ run_outcome = "none"
    /\ segments_dir = FALSE
    /\ finalize_calls = 0
    /\ n_sigint = 0
    /\ initial_t = 0
    /\ publish_frame_time = None
    /\ w_pc = [w \in Workers |-> "unstarted"]
    /\ w_t = [w \in Workers |-> None]
    /\ files = [f \in FileNames |-> <<>>]
    /\ live_download_queue = <<>>
    /\ queued_live_timestamps = {}
    /\ last_new_segment_time = None
    /\ now = 0
    /\ init_files = [m \in InitMedia |-> "absent"]
    /\ past_seed = [m \in InitMedia |-> "absent"]
    /\ probe_in = NoProbe
    /\ SelectIdle
    /\ LossCountersIdle

\* No search in progress.
SearchIdle ==
    /\ probes = <<>>
    /\ completed = <<>>
    /\ s_pc = "idle"
    /\ s_id = 0
    /\ s_start = 0
    /\ s_chunk = 0
    /\ s_result = None
    /\ s_cancelled = FALSE
    /\ n_cancels = 0

Init ==
    /\ RunIdle
    /\ no_past \in BOOLEAN
    /\ SearchIdle
    /\ FinaliserIdle
    /\ FetchIdle
    /\ head = [t \in 0 .. MaxHead |-> 404]

Next ==
    \/ run_start
    \/ fetch_initial_mpd_done
    \/ download_init_segments_done
    \/ run_gather_done
    \/ run_exit
    \/ run_cancelled
    \/ poll_iteration
    \/ live_get
    \/ live_downloaded
    \/ past_start
    \/ past_search_done
    \/ past_search_drained
    \/ past_downloaded
    \/ past_delay_done
    \/ \E w \in Downloaders : download_fetched(w)
    \/ \E w \in Downloaders : download_write_video(w)

Spec == Init /\ [][Next]_vars

SearchInit ==
    /\ RunIdle
    /\ no_past = FALSE
    /\ SearchIdle
    /\ FinaliserIdle
    /\ FetchIdle
    /\ head \in [0 .. MaxHead -> HeadStatuses]

SearchNext ==
    \/ search_call
    \/ search_forwards_next_result
    \/ search_forwards_return
    \/ search_forwards_cancelled
    \/ \E k \in ProbeIds : check_url_exists_acquire(k)
    \/ \E k \in ProbeIds : check_url_exists_response(k)
    \/ \E k \in ProbeIds : check_url_exists_wake(k)
    \/ \E k \in ProbeIds : check_url_exists_cancelled(k)

SearchSpec == SearchInit /\ [][SearchNext]_vars

LegacySearchNext ==
    \/ legacy_search_call
    \/ legacy_search_forwards_next_result
    \/ legacy_search_forwards_cancelled
    \/ \E k \in ProbeIds : check_url_exists_acquire(k)
    \/ \E k \in ProbeIds : check_url_exists_response(k)
    \/ \E k \in ProbeIds : check_url_exists_wake(k)
    \/ \E k \in ProbeIds : legacy_check_url_exists_cancelled(k)

LegacySearchSpec == SearchInit /\ [][LegacySearchNext]_vars

\* The finaliser on a staging directory as a run can leave it: the directory
\* exists, each staging file is absent or holds some segments.
FinalizeInit ==
    /\ RunIdle
    /\ no_past = FALSE
    /\ SearchIdle
    /\ head = [t \in 0 .. MaxHead |-> 404]
    /\ f_pc = "idle"
    /\ f_calls = 0
    /\ staging_dir_exists = TRUE
    /\ staged \in [FileNames -> FileStates]
    /\ video_full = <<>>
    /\ audio_full = <<>>
    /\ output_file = <<>>
    /\ outputs = <<>>
    /\ keep_segments \in BOOLEAN
    /\ ffmpeg \in {"ok", "nonzero", "cannot_start"}
    /\ open_fails \in BOOLEAN
    /\ muxed = FALSE
    /\ FetchIdle

FinalizeNext == finalize_video

FinalizeSpec == FinalizeInit /\ [][FinalizeNext]_vars

\* One manifest fetch after another.
FetchInit ==
    /\ RunIdle
    /\ no_past = FALSE
    /\ SearchIdle
    /\ head = [t \in 0 .. MaxHead |-> 404]
    /\ FinaliserIdle
    /\ FetchIdle

FetchNext ==
    \/ fetch_url_content_call
    \/ fetch_url_content_response
    \/ fetch_url_content_wake
    \/ fetch_and_parse_mpd_return
    \/ fetch_and_parse_mpd_taken

FetchSpec == FetchInit /\ [][FetchNext]_vars

\* The two HTTP primitives in the order the past worker meets them: the GETs
\* of the start-up, then the HEAD probes of its searches.
PrimitivesNext ==
    \/ s_pc = "idle" /\ FetchNext
    \/ g_pc = "idle" /\ SearchNext

PrimitivesSpec == SearchInit /\ [][PrimitivesNext]_vars

\* The past worker at the end of a pair download, with the duration probe
\* about to meet probe_in.
ProbeInit ==
    /\ main_pc = "gather"
    /\ run_outcome = "none"
    /\ segments_dir = TRUE
    /\ finalize_calls = 0
    /\ n_sigint = 0
    /\ no_past = FALSE
    /\ \E t \in TS :
          /\ initial_t \in {t0 \in TS : t < t0}
          /\ publish_frame_time = t
          /\ w_t = [w \in Workers |-> IF w = "past" THEN t ELSE None]
          /\ files = [f \in FileNames |->
                         IF f = "video_past" THEN <<t>> ELSE <<>>]
    /\ w_pc = [w \in Workers |->
                  IF w = "past" THEN "w_aud"
                  ELSE IF w = "poll" THEN "sleep" ELSE "get"]
    /\ live_download_queue = <<>>
    /\ queued_live_timestamps = {}
    /\ last_new_segment_time = None
    /\ now = 0
    /\ init_files = InitContent
    /\ past_seed = InitContent
    /\ probe_in \in ProbeOutcomes
    /\ SelectIdle
    /\ total_expected_segments = 1
    /\ missing_segment_timestamps = {}
    /\ first_segment_t = None
    /\ SearchIdle
    /\ head = [t \in 0 .. MaxHead |-> 404]
    /\ FinaliserIdle
    /\ FetchIdle

ProbeNext ==
    \/ past_downloaded_probing(probe_in)
    \/ past_search_done
    \/ past_delay_done

ProbeSpec == ProbeInit /\ [][ProbeNext]_vars

\* select_representation on each manifest and each list of preferred ids.
SelectInit ==
    /\ main_pc = "init"
    /\ run_outcome = "none"
    /\ segments_dir = FALSE
    /\ finalize_calls = 0
    /\ n_sigint = 0
    /\ no_past = FALSE
    /\ initial_t = 0
    /\ publish_frame_time = None
    /\ w_pc = [w \in Workers |-> "unstarted"]
    /\ w_t = [w \in Workers |-> None]
    /\ files = [f \in FileNames |-> <<>>]
    /\ live_download_queue = <<>>
    /\ queued_live_timestamps = {}
    /\ last_new_segment_time = None
    /\ now = 0
    /\ init_files = [m \in InitMedia |-> "absent"]
    /\ past_seed = [m \in InitMedia |-> "absent"]
    /\ probe_in = NoProbe
    /\ LossCountersIdle
    /\ SearchIdle
    /\ head = [t \in 0 .. MaxHead |-> 404]
    /\ FinaliserIdle
    /\ FetchIdle
    /\ sel_root \in Roots
    /\ sel_media_type \in MimeTypes
    /\ sel_preferred_ids \in PreferredIds
    /\ sel_result = NotSelected

SelectNext == select_representation_call

SelectSpec == SelectInit /\ [][SelectNext]_vars

\* A no-past run on a broadcast whose n-th live poll lists n segments, the
\* newest first seen by that poll, and whose third poll carries the
\* end-of-broadcast header; every segment GET gives bytes.
ScenarioPollNumber == (now \div poll_interval) + 1
ScenarioManifest(n) == [i \in 1 .. n |-> i - 1]
ScenarioEnded(n) == n = 3

ScenarioInit == Init /\ no_past

ScenarioNext ==
    \/ run_start
    \/ fetch_initial_mpd_done
    \/ download_init_segments_done
    \/ run_gather_done
    \/ run_exit
    \/ run_cancelled
    \/ poll_iteration_fetching(ScenarioEnded(ScenarioPollNumber),
                               [kind |-> "timeline",
                                S |-> ScenarioManifest(ScenarioPollNumber)])
    \/ live_get
    \/ live_downloaded
    \/ download_fetched_with("live", TRUE, TRUE)
    \/ download_write_video("live")

ScenarioSpec == ScenarioInit /\ [][ScenarioNext]_vars

\* ------------------------------------------------------------------ claims
\* The timestamps a staging file holds.
FileTimestamps(f) == SeqRange(files[f])

\* The recorded timestamps: those whose pair is in the staging files.
RecordedPast == FileTimestamps("video_past") \cap FileTimestamps("audio_past")
RecordedLive == FileTimestamps("video_live") \cap FileTimestamps("audio_live")
RecordedTimestamps == RecordedPast \cup RecordedLive

SetMin(S) == CHOOSE m \in S : \A x \in S : m <= x

\* The poller returned because of the end-of-broadcast header: it has
\* returned, and the inactivity test could not have been the reason.
EndedByHeader ==
    /\ w_pc["poll"] = "returned"
    /\ \/ last_new_segment_time = None
       \/ now - last_new_segment_time <= live_end_timeout

\* C1: search_forwards_for_next_segment(startT) returns the smallest
\* timestamp t >= startT whose video HEAD answers 200, whatever the order in
\* which the concurrent probes complete.
C1_ReturnsSmallest ==
    (s_pc = "returned" /\ s_result # None) =>
        \A t \in s_start .. (s_result - 1) : HeadStatus(t) # 200

\* C2: when the run is over, on every exit path, the timestamps in
\* video_past are those in audio_past and the timestamps in video_live are
\* those in audio_live.
C2_PairsComplete ==
    main_pc = "done" =>
        /\ FileTimestamps("video_past") = FileTimestamps("audio_past")
        /\ FileTimestamps("video_live") = FileTimestamps("audio_live")

\* C3: at the end of every run, the number of missing timestamps plus the
\* number of recorded timestamps is total_expected_segments.
C3_LossAccounting ==
    main_pc = "done" =>
        Cardinality(missing_segment_timestamps) + Cardinality(RecordedTimestamps)
            = total_expected_segments

\* C4: once the staging directory exists, run() ends in no way without the
\* finaliser having been invoked exactly once, and the finaliser is never
\* invoked a second time.
C4_FinaliserExactlyOnce ==
    /\ finalize_calls <= 1
    /\ (segments_dir /\ main_pc \in {"closing", "done"}) => finalize_calls = 1

\* C4 witness: run() was cancelled from outside while it awaited the
\* workers, a worker ended cancelled, run() raised and is over.
C4_Witness ==
    /\ main_pc = "done"
    /\ n_sigint = 1
    /\ run_outcome = "raised"
    /\ w_pc["poll"] = "cancelled"
    /\ finalize_calls = 1

\* C5: when no S entry with t >= initial_t has ever appeared, a poll that
\* finds the timeline without a new entry more than live_end_timeout after
\* the poller started enqueues the sentinel and ends the poller.
C5_InactivityFromStartup ==
    [][\A root \in PollResponses :
          ( /\ w_pc["poll"] = "sleep"
            /\ queued_live_timestamps = {}
            /\ root.kind = "timeline"
            /\ NewSegments(root.S, queued_live_timestamps) = <<>>
            /\ now' = now + poll_interval
            /\ now' > live_end_timeout
            /\ poll_live_manifest(FALSE, root) )
          => /\ w_pc'["poll"] = "returned"
             /\ live_download_queue' = Append(live_download_queue, None)]_vars

C7_PastBeforeLive ==
    LET past == FileTimestamps("video_past") \cup FileTimestamps("audio_past")
        live == FileTimestamps("video_live") \cup FileTimestamps("audio_live")
    IN  /\ \A t \in past : t < initial_t
        /\ \A t \in live : t >= initial_t
        /\ past \cap live = {}

\* C7 witness: both the past worker and the live downloader have recorded
\* a pair.
C7_Witness == RecordedPast # {} /\ RecordedLive # {}

\* C8: at no instant are more than max_search_requests HEAD requests in
\* flight, across consecutive searches and counting the probes that were
\* cancelled.
C8_InFlightBounded == InFlight <= max_search_requests

\* C8 witness: in the second search, during the cleanup, the semaphore is
\* exhausted by probes that were cancelled and are requesting again, while
\* another probe was waiting for a permit.
C8_Witness ==
    /\ s_id = 2
    /\ s_pc = "cleanup"
    /\ Cardinality({k \in ProbeIds : probes[k].pc = "head" /\ ~probes[k].cancel})
          = max_search_requests
    /\ \E k \in ProbeIds : probes[k].pc = "queued"

\* C9: whenever a search returns control to its caller (a timestamp,
\* notFound, or the CancelledError), every probe task it created has
\* finished.
C9_NoProbeLeftAtReturn ==
    s_pc \in {"returned", "raised"} => \A k \in ProbeIds : probes[k].pc = "done"

\* C10: first_segment_t, if defined, is the minimum of the recorded
\* timestamps.
C10_FirstSegmentIsMin ==
    first_segment_t # None =>
        /\ RecordedTimestamps # {}
        /\ first_segment_t = SetMin(RecordedTimestamps)

C12_SecondRunSameOutput ==
    (f_calls = 2 /\ ~open_fails) =>
        /\ f_pc = "returned"
        /\ outputs[2] = outputs[1]

\* C13: a call of download_and_append_segment appends both bodies or
\* neither: when both GETs succeeded the call ends with both bodies
\* appended, and when it ends otherwise both files are as they were before.
C13_PairAllOrNothing ==
    [][\A w \in Downloaders :
          /\ (w_pc[w] = "fetch" /\ w_pc'[w] \notin {"fetch", "w_vid"}) =>
                /\ files'[VideoPath(w)] = files[VideoPath(w)]
                /\ files'[AudioPath(w)] = files[AudioPath(w)]
          /\ (w_pc[w] = "w_vid" /\ w_pc'[w] \notin {"w_vid", "w_aud"}) =>
                files'[VideoPath(w)] = files[VideoPath(w)]
          /\ (w_pc[w] = "w_aud" /\ w_pc'[w] # "w_aud") =>
                files'[AudioPath(w)] = Append(files[AudioPath(w)], w_t[w])]_vars

\* The statuses the retry policy retries on.
Transient(status) == status \in {NoResponse, 429} \/ status >= 500

\* D * 2^n
Backoff(n) == download_retry_delay * 2 ^ n

\* C14: a GET whose every attempt fails with a transport error, a 5xx or a
\* 429 makes download_retries + 1 attempts, sleeps D * 2^n after failed
\* attempt n, and reports failure.
C14_RetriesWithBackoff ==
    (g_pc = "done" /\ \A i \in 1 .. Len(g_log) : Transient(g_log[i].status)) =>
        /\ Len(g_log) = download_retries + 1
        /\ g_sleeps = [n \in 1 .. download_retries |-> Backoff(n - 1)]
        /\ g_content = "none"

\* A client error other than 429 Too Many Requests.
PermanentFailure(status) == status \in (400 .. 499) \ {429}

\* C15: after a 4xx response other than 429 the GET returns failure at
\* once and the HEAD returns absent at once: that response is the last one
\* of the call, and no sleep follows it.
C15_PermanentFailureIsFinal ==
    /\ [](\A i \in 1 .. Len(g_log) :
            PermanentFailure(g_log[i].status) =>
                /\ i = Len(g_log)
                /\ g_pc \in {"done", "parsed"}
                /\ g_content = "none"
                /\ Len(g_sleeps) < i)
    /\ [][\A k \in ProbeIds :
            ( /\ probes[k].pc = "head"
              /\ ~probes[k].cancel
              /\ PermanentFailure(HeadStatus(k[2]))
              /\ k \in DOMAIN probes'
              /\ probes'[k] # probes[k]
              /\ ~probes'[k].cancel )
            => /\ probes'[k].pc = "done"
               /\ probes'[k].result = None
               /\ probes'[k].attempt = probes[k].attempt]_vars

\* C15 witness: the GETs of the start-up are over and a HEAD probe has ended
\* on a 404 at its first attempt while its search goes on.
C15_Witness ==
    /\ g_pc = "idle"
    /\ s_pc = "running"
    /\ \E k \in ProbeIds :
          /\ HeadStatus(k[2]) = 404
          /\ probes[k].pc = "done"
          /\ probes[k].attempt = 0

\* C16: when a response of a manifest fetch carried the
\* x-fb-video-broadcast-ended header, whatever its status and body, the
\* fetch reports is_ended to the poller.
C16_HeaderAlwaysEnds ==
    g_pc = "parsed" => ((\E i \in 1 .. Len(g_log) : g_log[i].ended) => m_is_ended)

\* The positions of the sentinel in a queue.
SentinelPositions(q) == {i \in 1 .. Len(q) : q[i] = None}

\* C17: the sentinel is placed on the live queue at most once and only by the
\* poller, as its last act; nothing is enqueued after it; and once the live
\* downloader has dequeued it, the live downloader dequeues nothing and
\* attempts nothing any more.
C17_SentinelOnceAndLast ==
    /\ [](/\ SentinelPositions(live_download_queue) \subseteq
                  {Len(live_download_queue)}
          /\ (SentinelPositions(live_download_queue) # {}
                  => w_pc["poll"] = "returned")
          /\ (w_pc["live"] = "returned"
                  => (w_pc["poll"] = "returned" /\ live_download_queue = <<>>)))
    /\ [][/\ (Len(live_download_queue') > Len(live_download_queue)
                => (/\ w_pc["poll"] = "sleep"
                    /\ SentinelPositions(live_download_queue) = {}
                    /\ SubSeq(live_download_queue', 1, Len(live_download_queue))
                          = live_download_queue))
           /\ (w_pc["poll"] = "returned"
                => (/\ w_pc'["poll"] = "returned"
                    /\ \/ live_download_queue' = live_download_queue
                       \/ /\ live_download_queue # <<>>
                          /\ live_download_queue' = Tail(live_download_queue)))
           /\ (w_pc["live"] = "returned"
                => (/\ w_pc'["live"] = "returned"
                    /\ live_download_queue' = live_download_queue
                    /\ w_t'["live"] = w_t["live"]
                    /\ files'["video_live"] = files["video_live"]
                    /\ files'["audio_live"] = files["audio_live"]))]_vars

\* C17 witness: the live downloader has appended a pair, then dequeued the
\* sentinel and returned, while the rest of the run is still going on.
C17_Witness ==
    /\ w_pc["live"] = "returned"
    /\ w_pc["poll"] = "returned"
    /\ Len(files["audio_live"]) >= 1
    /\ main_pc = "gather"

\* C18: the live downloader attempts timestamps in the order in which they
\* were enqueued: each attempt takes the item at the front of the queue, and
\* the queue changes only by losing its front item or by growing at its back.
C18_LiveAttemptsInQueueOrder ==
    [][/\ ((w_pc["live"] = "get" /\ w_pc'["live"] = "fetch")
              => (/\ live_download_queue # <<>>
                  /\ w_t'["live"] = Head(live_download_queue)
                  /\ live_download_queue' = Tail(live_download_queue)))
       /\ (w_t'["live"] # w_t["live"]
              => (w_pc["live"] = "get" /\ w_pc'["live"] = "fetch"))
       /\ (live_download_queue' # live_download_queue
              => \/ /\ live_download_queue # <<>>
                    /\ live_download_queue' = Tail(live_download_queue)
                 \/ /\ Len(live_download_queue') > Len(live_download_queue)
                    /\ SubSeq(live_download_queue', 1, Len(live_download_queue))
                          = live_download_queue)]_vars

\* C18 witness: one pair is in the live files, the live downloader is
\* fetching the second timestamp it dequeued, and a third one is waiting.
C18_Witness ==
    /\ w_pc["live"] = "fetch"
    /\ Len(files["video_live"]) >= 1
    /\ live_download_queue # <<>>
    /\ Head(live_download_queue) # None

\* f[1] <= f[2] <= ... for the timestamps appended to a file.
NonDecreasing(f) == \A i, j \in 1 .. Len(f) : i < j => f[i] <= f[j]

\* C19: whatever manifests the polls return, the timestamps appended to the
\* live files are in non-decreasing order.
C19_LiveFilesNonDecreasing ==
    /\ NonDecreasing(files["video_live"])
    /\ NonDecreasing(files["audio_live"])

\* C20: whatever the duration probe and the forward search return, the
\* timestamps appended to the past files are in non-decreasing order.
C20_PastFilesNonDecreasing ==
    /\ NonDecreasing(files["video_past"])
    /\ NonDecreasing(files["audio_past"])

\* C21: when gather ends because a worker raised or the run was cancelled,
\* every other worker is stopped by the time the finaliser starts, and once
\* the finaliser has started no worker starts a pair download, polls the
\* manifest, or appends to a staging file.
C21_WorkersStoppedBeforeFinaliser ==
    [][/\ (finalize_calls' > finalize_calls
             => \A w \in Workers : w_pc'[w] \in Terminal \cup {"unstarted"})
       /\ (finalize_calls >= 1
             => (/\ files' = files
                 /\ now' = now
                 /\ \A w \in Downloaders :
                       w_pc'[w] = "fetch" => w_pc[w] = "fetch"))]_vars

\* C22: when an init-segment download gave no bytes, the run never reaches
\* gather: no worker is started, no media segment is attempted or queued,
\* and run() ends raised with the finaliser called once.
C22_InitFailureIsFatal ==
    (\E m \in InitMedia : init_files[m] = "absent") =>
        /\ main_pc # "gather"
        /\ \A w \in Workers : w_pc[w] = "unstarted"
        /\ \A f \in FileNames : files[f] = <<>>
        /\ total_expected_segments = 0
        /\ live_download_queue = <<>>
        /\ (main_pc \in {"closing", "done"} =>
               (finalize_calls = 1 /\ run_outcome = "raised"))

\* C22 witness: the video init segment was downloaded and the audio one was
\* not; the run is over.
C22_Witness ==
    /\ init_files["video"] = InitContent["video"]
    /\ init_files["audio"] = "absent"
    /\ main_pc = "done"
    /\ finalize_calls = 1

\* C23: finalize_video never raises to its caller: whatever fails (the
\* muxer exits non-zero or cannot be started, a staging file or the staging
\* directory cannot be opened), the call returns, and a first call that did
\* not mux leaves the staging directory in place.
C23_FinaliserNeverRaises ==
    /\ f_pc # "raised"
    /\ ((f_calls = 1 /\ ~muxed) => staging_dir_exists)

\* The failure modes of the probe: the file is missing or empty, the
\* executable cannot be started, it exits non-zero, or its output is not one
\* line holding an integer.
ProbeFails(o) ==
    \/ o.file \in {"missing", "empty"}
    \/ ~o.starts
    \/ o.exit # 0
    \/ Len(o.stdout) # 1
    \/ \E i \in 1 .. Len(o.stdout) : o.stdout[i].text # "int"

\* C24: when the probe after an appended pair fails, in any of its failure
\* modes, the past worker goes on to a forward search, and the timestamp it
\* takes from that search is unknown or at least t + 1.
C24_ProbeFailureLeadsToSearch ==
    [][/\ ((/\ w_pc["past"] = "w_aud"
            /\ ProbeFails(probe_in)
            /\ files'["audio_past"] # files["audio_past"])
             => (w_pc'["past"] = "search" /\ w_t'["past"] = w_t["past"]))
       /\ ((w_pc["past"] = "search" /\ w_pc'["past"] # "search")
             => (w_t'["past"] = None \/ w_t'["past"] >= w_t["past"] + 1))]_vars

\* The representations of the manifest with the mimeType asked for.
Candidates ==
    {i \in 1 .. Len(sel_root) : sel_root[i].mimeType = sel_media_type}

\* The preferred ids that a candidate carries, by their place in the list.
PresentPreferred ==
    {k \in 1 .. Len(sel_preferred_ids) :
        \E i \in Candidates : sel_root[i].id = sel_preferred_ids[k]}

\* C25: select_representation returns a representation with the mimeType
\* asked for; when a preferred id is present, it is the (first)
\* representation whose id is the earliest present entry of the preferred
\* ids; when no preferred id is given, it has the largest bandwidth and is
\* the first of those with that bandwidth in document order.
C25_SelectsPreferredOrBest ==
    (sel_result # NotSelected /\ Candidates # {}) =>
        LET rep == sel_result.rep IN
        /\ ~sel_result.raised
        /\ rep \in Candidates
        /\ (PresentPreferred # {} =>
              LET k == CHOOSE k0 \in PresentPreferred :
                           \A k1 \in PresentPreferred : k0 <= k1
              IN  /\ sel_root[rep].id = sel_preferred_ids[k]
                  /\ \A i \in Candidates :
                        i < rep => sel_root[i].id # sel_preferred_ids[k])
        /\ (sel_preferred_ids = <<>> =>
              \A i \in Candidates :
                  /\ sel_root[i].bandwidth <= sel_root[rep].bandwidth
                  /\ (i < rep =>
                        sel_root[i].bandwidth < sel_root[rep].bandwidth))

\* C25 witness: both preferred ids are in the manifest; the first
\* candidate carries the second preferred id and the second candidate, which
\* carries the first, was selected.
C25_Witness ==
    /\ sel_result # NotSelected
    /\ Candidates = {1, 2}
    /\ PresentPreferred = {1, 2}
    /\ sel_root[1].id = sel_preferred_ids[2]
    /\ sel_result.rep = 2

\* C26: in the scenario run with initial_t = 0 that ends normally, the live
\* files hold the three timestamps of the three polls in their order, three
\* segments were expected and none is missing.
C26_ScenarioPureLive ==
    (main_pc = "done" /\ run_outcome = "returned" /\ initial_t = 0) =>
        /\ files["video_live"] = ScenarioManifest(3)
        /\ files["audio_live"] = ScenarioManifest(3)
        /\ total_expected_segments = 3
        /\ missing_segment_timestamps = {}

\* The past file of a media type.
PastFile(m) == IF m = "video" THEN "video_past" ELSE "audio_past"

\* C27: whenever the past worker is downloading or appending a segment, and
\* whenever a past file holds a media segment, each past file began as the
\* copy of the init file of its media type; that beginning never changes
\* afterwards.
C27_PastFilesStartWithInit ==
    /\ [](\A m \in InitMedia :
             (\/ files[PastFile(m)] # <<>>
              \/ w_pc["past"] \in {"fetch", "w_vid", "w_aud"})
                => (past_seed[m] = InitContent[m] /\ init_files[m] = InitContent[m]))
    /\ [][\A m \in InitMedia :
             past_seed[m] # "absent" => past_seed'[m] = past_seed[m]]_vars

\* C27 witness: the past worker has appended a pair to the seeded files.
C27_Witness ==
    /\ files["video_past"] # <<>>
    /\ files["audio_past"] # <<>>
    /\ past_seed = InitContent

\* C28: every iteration of the past worker's loop that goes on to another
\* timestamp goes on to unknown or to a strictly larger one, so that
\* the loop cannot go on for ever below initial_t.
C28_PastLoopAdvances ==
    [][(/\ w_pc["past"] \in {"w_aud", "search"}
        /\ w_pc'["past"] \in {"fetch", "delay"})
          => (w_t'["past"] = None \/ w_t'["past"] > w_t["past"])]_vars

\* C29: once a live timestamp has been enqueued, a poll that yields no new
\* timestamp (nothing new listed, no manifest fetched or parsed, no
\* SegmentTimeline) more than live_end_timeout after the last new one puts
\* the sentinel on the queue and ends the poller.
C29_InactivityEndsPoller ==
    [][(/\ w_pc["poll"] = "sleep"
        /\ now' # now
        /\ w_pc'["poll"] # "raised"
        /\ queued_live_timestamps' = queued_live_timestamps
        /\ last_new_segment_time # None
        /\ now' - last_new_segment_time > live_end_timeout)
          => (/\ w_pc'["poll"] = "returned"
              /\ live_download_queue' = Append(live_download_queue, None))]_vars

\* C30: when the pair download at past timestamp t returns without both
\* contents, no staging file changes, t is added to the missing timestamps
\* and the past worker starts a forward search, and the timestamp it takes
\* from that search is unknown or at least t + 1.
C30_FailedPairIsSkipped ==
    [][/\ ((/\ w_pc["past"] = "fetch"
            /\ w_pc'["past"] \notin {"fetch", "w_vid", "cancelled"})
             => (/\ files' = files
                 /\ missing_segment_timestamps' =
                       missing_segment_timestamps \cup {w_t["past"]}
                 /\ w_pc'["past"] = "search"
                 /\ w_t'["past"] = w_t["past"]))
       /\ ((/\ w_pc["past"] = "search"
            /\ w_t["past"] \in missing_segment_timestamps
            /\ w_pc'["past"] \in {"fetch", "delay", "returned"})
             => (w_t'["past"] = None \/ w_t'["past"] >= w_t["past"] + 1))]_vars

\* C30 witness: the pair at t was not downloaded, t is recorded as missing,
\* the past files are untouched and the past worker is downloading a later
\* timestamp.
C30_Witness ==
    /\ w_pc["past"] = "fetch"
    /\ files["video_past"] = <<>>
    /\ files["audio_past"] = <<>>
    /\ \E t \in missing_segment_timestamps : w_t["past"] > t

\* C31: the miss set grows only by the timestamp of a pair download that
\* has just failed, total_expected_segments grows by one exactly when a
\* worker starts a pair download, and so a timestamp that a search or the
\* probe skipped over is neither recorded as missing nor counted.
C31_MissesAreFailedAttempts ==
    /\ [](Cardinality(missing_segment_timestamps) <= total_expected_segments)
    /\ [][/\ (missing_segment_timestamps' # missing_segment_timestamps
                => \E w \in Downloaders :
                      /\ w_pc[w] = "fetch"
                      /\ w_pc'[w] \in {"search", "get"}
                      /\ missing_segment_timestamps' =
                            missing_segment_timestamps \cup {w_t[w]})
           /\ (total_expected_segments' # total_expected_segments
                => (/\ total_expected_segments' = total_expected_segments + 1
                    /\ \E w \in Downloaders :
                          w_pc[w] # "fetch" /\ w_pc'[w] = "fetch"))
           /\ \A w \in Downloaders :
                (w_pc[w] # "fetch" /\ w_pc'[w] = "fetch")
                   => (/\ total_expected_segments' = total_expected_segments + 1
                       /\ w_t'[w] # None)]_vars

\* C31 witness: the first search skipped timestamp 0 and found 1, whose pair
\* download failed: 1 is the only miss and the only attempt.
C31_Witness ==
    /\ publish_frame_time = None
    /\ w_pc["past"] = "search"
    /\ w_t["past"] = 1
    /\ missing_segment_timestamps = {1}
    /\ total_expected_segments = 1

\* The timestamps a search from s_start is to cover.
SearchRange == s_start .. (s_start + end_stream_miss_threshold - 1)

\* C32: a search probes only the end_stream_miss_threshold timestamps from
\* its start on, and it returns None exactly when none of them answers 200.
C32_SearchCoversThreshold ==
    /\ \A k \in ProbesOf(s_id) : k[2] \in SearchRange
    /\ (s_pc = "returned" =>
          (s_result = None <=> \A t \in SearchRange : HeadStatus(t) # 200))

\* The chunk of the current search a timestamp belongs to.
ChunkOf(t) == (t - s_start) \div search_chunk_size

\* C33: within a search, while a probe of some chunk is unfinished no probe
\* of a later chunk exists; and a timestamp the search returns answers 200
\* and no timestamp of an earlier chunk does.
C33_ChunksInOrder ==
    /\ \A k1, k2 \in ProbesOf(s_id) :
          (s_pc = "running" /\ ChunkOf(k1[2]) < ChunkOf(k2[2]))
             => probes[k1].pc = "done"
    /\ ((s_pc = "returned" /\ s_result # None) =>
          /\ HeadStatus(s_result) = 200
          /\ \A t \in s_start .. (s_result - 1) :
                ChunkOf(t) < ChunkOf(s_result) => HeadStatus(t) # 200)

\* C33 witness: the first chunk held no hit and the search returned a
\* timestamp of its second chunk.
C33_Witness ==
    /\ s_pc = "returned"
    /\ s_result # None
    /\ ChunkOf(s_result) = 1

\* C34: a probe task whose cancellation has been requested does nothing
\* more than finish: its next step, wherever the cancellation finds it,
\* leaves it done, with no sleep and no further HEAD request.
C34_CancelledProbeStops ==
    [][\A k \in ProbeIds \cap DOMAIN probes' :
          (probes[k].cancel /\ probes[k].pc # "done" /\ probes'[k] # probes[k])
             => probes'[k].pc = "done"]_vars

\* C35: a HEAD attempt that ends in a 5xx or 429 response or in a transport
\* error is followed by a sleep before the next attempt, as for GET, and
\* the probe gives up only when its attempts are used up.
C35_HeadRetriesLikeGet ==
    [][\A k \in ProbeIds \cap DOMAIN probes' :
          (/\ probes[k].pc = "head"
           /\ ~probes[k].cancel
           /\ ~probes'[k].cancel
           /\ probes'[k] # probes[k]
           /\ HeadStatus(k[2]) \notin {200, 404})
             => IF probes[k].attempt + 1 < check_url_retries
                THEN probes'[k].pc = "sleep"
                ELSE probes'[k].pc = "done"]_vars

\* The timestamps waiting on the live queue (the sentinel apart).
QueuedNow == SeqRange(live_download_queue) \ {None}

\* C36: a live timestamp is enqueued at most once and attempted at most
\* once.  The queue never holds a timestamp twice, holds only timestamps of
\* queued_live_timestamps and never the one being attempted; a timestamp
\* put on the queue was not in queued_live_timestamps before and is in it
\* from then on; and an attempt of the live downloader takes its timestamp
\* off the queue, so that it cannot come back, failed or not.
C36_LiveTimestampsOnce ==
    /\ [](/\ \A i, j \in 1 .. Len(live_download_queue) :
                (i # j /\ live_download_queue[i] # None)
                   => live_download_queue[i] # live_download_queue[j]
          /\ QueuedNow \subseteq queued_live_timestamps
          /\ (w_pc["live"] \in {"fetch", "w_vid", "w_aud"}
                => /\ w_t["live"] \in queued_live_timestamps
                   /\ w_t["live"] \notin QueuedNow))
    /\ [][/\ queued_live_timestamps \subseteq queued_live_timestamps'
          /\ (QueuedNow' \ QueuedNow) \cap queued_live_timestamps = {}
          /\ ((w_pc["live"] # "fetch" /\ w_pc'["live"] = "fetch")
                => /\ live_download_queue # <<>>
                   /\ w_t'["live"] = Head(live_download_queue)
                   /\ live_download_queue' = Tail(live_download_queue))]_vars

\* C36 witness: timestamp 1 was enqueued once, its download failed and was
\* recorded, two polls have passed since then, and it is not on the queue
\* again.
C36_Witness ==
    /\ 1 \in queued_live_timestamps
    /\ 1 \in missing_segment_timestamps
    /\ w_pc["live"] = "get"
    /\ w_t["live"] = 1
    /\ now = MaxTime
    /\ live_download_queue = <<>>
    /\ total_expected_segments = 1

\* C37: the past worker waiting for its initial search from 0 (there was no
\* publish_frame_time) either starts an attempt at a timestamp the search
\* found, or returns normally, leaving total_expected_segments and the
\* miss set as they were, or is cancelled; it never raises, and its return
\* changes nothing of the poller, the live downloader or the run.
C37_NothingFoundReturnsQuietly ==
    [][(w_pc["past"] = "search0" /\ w_pc'["past"] # "search0")
          => /\ publish_frame_time = None
             /\ w_pc'["past"] \in {"fetch", "returned", "search_cleanup", "cancelled"}
             /\ (w_pc'["past"] = "fetch" => w_t'["past"] # None)
             /\ (w_pc'["past"] = "returned"
                   => /\ total_expected_segments' = total_expected_segments
                      /\ missing_segment_timestamps' = missing_segment_timestamps
                      /\ first_segment_t' = first_segment_t
                      /\ w_pc'["poll"] = w_pc["poll"]
                      /\ w_pc'["live"] = w_pc["live"]
                      /\ live_download_queue' = live_download_queue
                      /\ main_pc' = main_pc
                      /\ run_outcome' = run_outcome)]_vars

\* C37 witness: without publish_frame_time the past worker has returned
\* while the run is still gathering, and the only attempt counted is the
\* one the live downloader is making.
C37_Witness ==
    /\ publish_frame_time = None
    /\ ~no_past
    /\ w_pc["past"] = "returned"
    /\ main_pc = "gather"
    /\ w_pc["live"] = "fetch"
    /\ w_pc["poll"] = "sleep"
    /\ total_expected_segments = 1
    /\ missing_segment_timestamps = {}

\* What fetch_and_parse_mpd returns for a manifest that could not be
\* fetched or parsed.
NoManifest == [kind |-> "none", S |-> <<>>]

\* C38: a poll whose manifest could not be fetched or parsed enqueues no
\* timestamp and does not raise: without the end header the poller goes
\* back to its sleep with the queue as it was, with the end header it
\* puts the sentinel on the queue and returns.
C38_FailedPollIsHarmless ==
    [][\A is_ended \in BOOLEAN :
          poll_iteration_fetching(is_ended, NoManifest)
             => /\ queued_live_timestamps' = queued_live_timestamps
                /\ last_new_segment_time' = last_new_segment_time
                /\ IF is_ended
                   THEN /\ live_download_queue' = Append(live_download_queue, None)
                        /\ w_pc'["poll"] = "returned"
                   ELSE /\ live_download_queue' = live_download_queue
                        /\ w_pc'["poll"] = "sleep"]_vars

\* C38 witness: every poll up to the last instant has enqueued nothing and
\* the poller, which never saw a new segment, is still polling while the
\* live downloader waits on the empty queue.
C38_Witness ==
    /\ now = MaxTime
    /\ main_pc = "gather"
    /\ w_pc["poll"] = "sleep"
    /\ w_pc["live"] = "get"
    /\ queued_live_timestamps = {}
    /\ live_download_queue = <<>>
    /\ last_new_segment_time = None

\* The lines of the summary after the file name, the file size and the
\* duration, by their labels.
generate_summary_content ==
    IF total_expected_segments = 0
    THEN <<"status">>
    ELSE <<"first_ts", "segments", "loss", "missing">>

\* C39: once the run is over, the summary holds the "no segments" status
\* line, and then no other of these lines, exactly when no segment was
\* downloaded, also when segments were attempted and every attempt failed.
C39_NoSegmentsLine ==
    main_pc = "done" =>
        IF RecordedTimestamps = {}
        THEN generate_summary_content = <<"status">>
        ELSE "status" \notin SeqRange(generate_summary_content)

\* C40: when the live downloader has left its loop without having been
\* cancelled, no timestamp the poller enqueued is left on the queue: every
\* one of them was attempted before the downloader stopped.
C40_EveryQueuedAttempted ==
    w_pc["live"] \in {"returned", "raised"} => QueuedNow = {}

====
